---- MODULE Spec2Model ----
(***************************************************************************)
(* A model of src/geometry/capsule.rs (rapier, dim3 build): the Capsule    *)
(* shape, its bounding box, rigid transform, canonical rotation, support   *)
(* mapping, ray cast wrapper and point projection.                         *)
(*                                                                         *)
(* Arithmetic.  The code computes in f32.  The model computes the same     *)
(* expressions exactly, in the field Q(sqrt k): a scalar is a record       *)
(* [p, q, k, d] standing for (p + q*sqrt(k)) / d, kept in a canonical form *)
(* (d > 0, gcd(p, q, d) = 1, k squarefree, k = 1 when q = 0), so that two  *)
(* records are equal exactly when the reals are.  Every normalisation in   *)
(* the code divides by the square root of a rational, so one radical per   *)
(* result is enough.                                                       *)
(*                                                                         *)
(* Units.  Lengths are counted in units of the scalar type's epsilon       *)
(* (f32::default_epsilon()), so that vectors at, below and above the       *)
(* threshold the code passes to Unit::try_new* are all lattice vectors.    *)
(* Unit vectors and the numbers derived from them are dimensionless.       *)
(***************************************************************************)
EXTENDS Integers, Sequences, FiniteSets, TLC

VARIABLES capsule, op, args, call, res

vars == <<capsule, op, args, call, res>>

----------------------------------------------------------------------------
(* Bounds of the model *)

\* segment endpoint b has coordinates in -MaxCoord..MaxCoord
MaxCoord == 1

\* radius ranges over 0..MaxRadius
MaxRadius == 2

\* query points have coordinates in 0..MaxPt
MaxPt == 1

\* support directions have coordinates in -MaxDir..MaxDir
MaxDir == 1

----------------------------------------------------------------------------
(* Exact scalars: (p + q*sqrt(k)) / d *)

Abs(n) == IF n < 0 THEN -n ELSE n

Sgn(n) == IF n < 0 THEN -1 ELSE IF n > 0 THEN 1 ELSE 0

RECURSIVE GcdNat(_, _)
GcdNat(m, n) == IF n = 0 THEN m ELSE GcdNat(n, m % n)

Gcd(m, n) == GcdNat(Abs(m), Abs(n))

RECURSIVE SquarePartFrom(_, _, _)
SquarePartFrom(n, c, best) ==
    IF c * c > n THEN best
    ELSE SquarePartFrom(n, c + 1, IF n % (c * c) = 0 THEN c ELSE best)

\* the largest c with c*c dividing n (n >= 1)
SquarePart(n) == SquarePartFrom(n, 2, 1)

\* (p + q*sqrt(k)) / d with the common factor g > 0 divided out (d > 0)
ReduceBy(p, q, k, d, g) == [p |-> p \div g, q |-> q \div g, k |-> k, d |-> d \div g]

\* lowest terms, positive denominator
Reduce(p, q, k, d) ==
    IF d < 0 THEN ReduceBy(-p, -q, k, -d, Gcd(Gcd(p, q), d))
    ELSE ReduceBy(p, q, k, d, Gcd(Gcd(p, q), d))

\* c is the square part of k: sqrt(k) = c * sqrt(k / c^2)
MkSq(p, q, k, d, c) ==
    IF c * c = k THEN Reduce(p + q * c, 0, 1, d)
    ELSE Reduce(p, q * c, k \div (c * c), d)

\* canonical form of (p + q*sqrt(k)) / d, for k >= 0 and d # 0
Mk(p, q, k, d) ==
    IF q = 0 \/ k = 0 THEN Reduce(p, 0, 1, d)
    ELSE MkSq(p, q, k, d, SquarePart(k))

I(n) == [p |-> n, q |-> 0, k |-> 1, d |-> 1]

Zero == I(0)

One == I(1)

\* the radical two operands share (a rational operand has none)
Rad(a, b) == IF a.q # 0 THEN a.k ELSE b.k

IsInt(a) == a.q = 0 /\ a.d = 1

Add(a, b) ==
    IF IsInt(a) /\ IsInt(b) THEN I(a.p + b.p)
    ELSE Mk(a.p * b.d + b.p * a.d, a.q * b.d + b.q * a.d, Rad(a, b), a.d * b.d)

Neg(a) == [a EXCEPT !.p = -a.p, !.q = -a.q]

Sub(a, b) == Add(a, Neg(b))

Mul(a, b) ==
    IF IsInt(a) /\ IsInt(b) THEN I(a.p * b.p)
    ELSE Mk(a.p * b.p + a.q * b.q * Rad(a, b), a.p * b.q + a.q * b.p,
            Rad(a, b), a.d * b.d)

\* 1/a for a # 0: the conjugate over the field norm
Inv(a) == Mk(a.p * a.d, -(a.q * a.d), a.k, a.p * a.p - a.q * a.q * a.k)

Div(a, b) == Mul(a, Inv(b))

\* the sign of p + q*sqrt(k) (d > 0)
Sign(a) ==
    IF a.q = 0 THEN Sgn(a.p)
    ELSE IF a.p >= 0 /\ a.q > 0 THEN 1
    ELSE IF a.p <= 0 /\ a.q < 0 THEN -1
    ELSE IF a.p > 0 THEN (IF a.p * a.p > a.q * a.q * a.k THEN 1 ELSE -1)
    ELSE (IF a.q * a.q * a.k > a.p * a.p THEN 1 ELSE -1)

Lt(a, b) == Sign(Sub(a, b)) < 0

Le(a, b) == Sign(Sub(a, b)) <= 0

Gt(a, b) == Lt(b, a)

Ge(a, b) == Le(b, a)

\* the square root of a rational a >= 0: sqrt(p/d) = sqrt(p*d)/d
Sqrt(a) == Mk(0, 1, a.p * a.d, a.d)

Min(a, b) == IF Lt(b, a) THEN b ELSE a

Max(a, b) == IF Gt(b, a) THEN b ELSE a

----------------------------------------------------------------------------
(* Vectors and points: triples of scalars *)

IV(x, y, z) == <<I(x), I(y), I(z)>>

VZero == IV(0, 0, 0)

\* Vector::y(), the canonical reference axis
VY == IV(0, 1, 0)

VAdd(u, v) == <<Add(u[1], v[1]), Add(u[2], v[2]), Add(u[3], v[3])>>

VSub(u, v) == <<Sub(u[1], v[1]), Sub(u[2], v[2]), Sub(u[3], v[3])>>

VNeg(u) == <<Neg(u[1]), Neg(u[2]), Neg(u[3])>>

VScale(u, s) == <<Mul(u[1], s), Mul(u[2], s), Mul(u[3], s)>>

Dot(u, v) == Add(Add(Mul(u[1], v[1]), Mul(u[2], v[2])), Mul(u[3], v[3]))

Cross(u, v) == <<Sub(Mul(u[2], v[3]), Mul(u[3], v[2])),
                 Sub(Mul(u[3], v[1]), Mul(u[1], v[3])),
                 Sub(Mul(u[1], v[2]), Mul(u[2], v[1]))>>

NormSq(u) == Dot(u, u)

\* a.coords.inf(&b.coords) and a.coords.sup(&b.coords)
VInf(u, v) == <<Min(u[1], v[1]), Min(u[2], v[2]), Min(u[3], v[3])>>

VSup(u, v) == <<Max(u[1], v[1]), Max(u[2], v[2]), Max(u[3], v[3])>>

\* Vector::repeat(s)
VRepeat(s) == <<s, s, s>>

\* Vector::ith(i, s)
VIth(i, s) == <<IF i = 1 THEN s ELSE Zero, IF i = 2 THEN s ELSE Zero,
               IF i = 3 THEN s ELSE Zero>>

----------------------------------------------------------------------------
(* Unit vectors (nalgebra's Unit) *)

None == [some |-> FALSE]

Some(v) == [some |-> TRUE, val |-> v]

\* Unit::try_new_and_get(v, min_norm): the normalised vector and the norm when
\* the norm exceeds min_norm, nothing otherwise.  v has a rational squared norm.
Normalized(v, n) == [dir |-> VScale(v, Inv(n)), dist |-> n]

TryNewAndGet(v, min_norm) ==
    IF Gt(NormSq(v), Mul(min_norm, min_norm))
    THEN Some(Normalized(v, Sqrt(NormSq(v))))
    ELSE None

DirOf(r) == IF r.some THEN Some(r.val.dir) ELSE None

\* Unit::try_new(v, min_norm)
TryNew(v, min_norm) == DirOf(TryNewAndGet(v, min_norm))

UnwrapOr(o, dflt) == IF o.some THEN o.val ELSE dflt

----------------------------------------------------------------------------
(* Rotations and isometries.  A rotation is its 3x3 matrix (rows of scalars); *)
(* an isometry is a rotation followed by a translation.                       *)

MatVec(r, v) == <<Dot(r[1], v), Dot(r[2], v), Dot(r[3], v)>>

Transpose(r) == <<<<r[1][1], r[2][1], r[3][1]>>,
                  <<r[1][2], r[2][2], r[3][2]>>,
                  <<r[1][3], r[2][3], r[3][3]>>>>

RotIdentity == <<IV(1, 0, 0), IV(0, 1, 0), IV(0, 0, 1)>>

\* Isometry * Point
IsoPoint(m, p) == VAdd(MatVec(m.rotation, p), m.translation)

\* Isometry * Vector: the translation does not act on vectors
IsoVector(m, v) == MatVec(m.rotation, v)

\* m.inverse_transform_point(p)
IsoInvPoint(m, p) == MatVec(Transpose(m.rotation), VSub(p, m.translation))

\* m.inverse_transform_vector(v)
IsoInvVector(m, v) == MatVec(Transpose(m.rotation), v)

\* m.inverse()
IsoInverse(m) ==
    [rotation    |-> Transpose(m.rotation),
     translation |-> VNeg(MatVec(Transpose(m.rotation), m.translation))]

\* Isometry::identity()
IsoIdentity == [rotation |-> RotIdentity, translation |-> VZero]

----------------------------------------------------------------------------
(* Thresholds *)

\* f32::default_epsilon(), in the unit of length
DefaultEpsilon == 1

\* the threshold Unit::try_new(*dir, 0.0) is given in local_support_point
SupportMinNorm == 0

----------------------------------------------------------------------------
(* The segment primitive (ncollide's Segment), as the capsule uses it *)

\* Segment::new(a, b)
SegmentNew(a, b) == [a |-> a, b |-> b]

\* Segment::project_point(m, pt, solid).point: the point of the posed segment
\* closest to pt.  The query point is taken to the local frame, projected
\* (the Voronoi regions of a, of b, and of the edge), and taken back.
SegmentProjectRegion(seg, m, ab, ab_ap, sqnab) ==
    IF Le(ab_ap, Zero) THEN IsoPoint(m, seg.a)
    ELSE IF Ge(ab_ap, sqnab) THEN IsoPoint(m, seg.b)
    ELSE IsoPoint(m, VAdd(seg.a, VScale(ab, Div(ab_ap, sqnab))))

SegmentProjectLocal(seg, m, ls_pt, ab) ==
    SegmentProjectRegion(seg, m, ab, Dot(ab, VSub(ls_pt, seg.a)), NormSq(ab))

SegmentProjectPoint(seg, m, pt) ==
    SegmentProjectLocal(seg, m, IsoInvPoint(m, pt), VSub(seg.b, seg.a))

\* Segment::direction(): Unit::try_new(b - a, default_epsilon)
SegmentDirection(seg) == TryNew(VSub(seg.b, seg.a), I(DefaultEpsilon))

\* crate::utils::WBasis for a 3-vector: orthonormal_basis()[0] of a unit vector
\* (the branchless construction: sign carries the sign of z, +1 for z = +0).
BasisFrom(u, sign, a) ==
    <<Add(One, Mul(sign, Mul(Mul(u[1], u[1]), a))),
      Mul(sign, Mul(Mul(u[1], u[2]), a)),
      Neg(Mul(sign, u[1]))>>

BasisSigned(u, sign) == BasisFrom(u, sign, Neg(Inv(Add(sign, u[3]))))

OrthonormalBasis0(u) == BasisSigned(u, IF Lt(u[3], Zero) THEN I(-1) ELSE I(1))

----------------------------------------------------------------------------
(* Rotation::rotation_between(&Vector::y(), &dir) *)

\* The rotation of angle theta about axis, theta in (0, pi), from the cosine
\* and c = sin(theta) * axis (Rodrigues' formula, |c|^2 = 1 - cos^2).
Rodrigues(c, cos, k) ==
    <<<<Add(cos, Mul(k, Mul(c[1], c[1]))),
        Sub(Mul(k, Mul(c[1], c[2])), c[3]),
        Add(Mul(k, Mul(c[1], c[3])), c[2])>>,
      <<Add(Mul(k, Mul(c[2], c[1])), c[3]),
        Add(cos, Mul(k, Mul(c[2], c[2]))),
        Sub(Mul(k, Mul(c[2], c[3])), c[1])>>,
      <<Sub(Mul(k, Mul(c[3], c[1])), c[2]),
        Add(Mul(k, Mul(c[3], c[2])), c[1]),
        Add(cos, Mul(k, Mul(c[3], c[3])))>>>>

FromAxisAngle(c, cos) == Rodrigues(c, cos, Div(Sub(One, cos), NormSq(c)))

\* UnitQuaternion::rotation_between(a, b): the shortest-arc rotation taking
\* the direction of a to the direction of b; the identity when either cannot
\* be normalised or the two are aligned; none when they are opposite.
\* The cross product of two unit vectors is dimensionless: within the bounds
\* its norm is either zero or far above epsilon.
RotationBetweenAxis(c, cos) ==
    IF NormSq(c) # Zero
    THEN IF Le(cos, I(-1)) THEN None
         ELSE IF Ge(cos, One) THEN Some(RotIdentity)
         ELSE Some(FromAxisAngle(c, cos))
    ELSE IF Lt(cos, Zero) THEN None
    ELSE Some(RotIdentity)

RotationBetweenUnits(na, nb) ==
    IF na.some /\ nb.some
    THEN RotationBetweenAxis(Cross(na.val, nb.val), Dot(na.val, nb.val))
    ELSE Some(RotIdentity)

RotationBetween(a, b) == RotationBetweenUnits(TryNew(a, Zero), TryNew(b, Zero))

----------------------------------------------------------------------------
(* Capsule *)

\* Capsule::new(a, b, radius)
CapsuleNew(a, b, radius) == [segment |-> SegmentNew(a, b), radius |-> radius]

\* Capsule::aabb(pos)
AabbNew(mins, maxs) == [mins |-> mins, maxs |-> maxs]

\* (mutant) the lower corner is not moved out by the radius
AabbOf_MinsNotInflated(a, b, radius) ==
    AabbNew(VInf(a, b), VAdd(VSup(a, b), VRepeat(radius)))

AabbOf(a, b, radius) ==
    AabbNew(VSub(VInf(a, b), VRepeat(radius)), VAdd(VSup(a, b), VRepeat(radius)))

Aabb(c, pos) ==
    AabbOf(IsoPoint(pos, c.segment.a), IsoPoint(pos, c.segment.b), c.radius)

\* (mutant) the endpoints are rotated but not translated
TransformBy_RotationOnly(c, pos) ==
    CapsuleNew(IsoVector(pos, c.segment.a), IsoVector(pos, c.segment.b), c.radius)

\* Capsule::transform_by(pos)
TransformBy(c, pos) ==
    CapsuleNew(IsoPoint(pos, c.segment.a), IsoPoint(pos, c.segment.b), c.radius)

\* Capsule::rotation_wrt_y() (dim3)
\* (mutant) the direction is never flipped
FlipToY_Never(dir) == dir

FlipToY(dir) == IF Lt(dir[2], Zero) THEN VNeg(dir) ELSE dir

RotationWrtY(c) ==
    UnwrapOr(RotationBetween(VY, FlipToY(VSub(c.segment.b, c.segment.a))), RotIdentity)

\* (mutant) the comparison of the two dot products is reversed
LocalSupportPointToward_Reversed(c, dir) ==
    IF Lt(Dot(dir, c.segment.a), Dot(dir, c.segment.b))
    THEN VAdd(c.segment.a, VScale(dir, c.radius))
    ELSE VAdd(c.segment.b, VScale(dir, c.radius))

\* SupportMap::local_support_point_toward(dir), dir a unit vector
LocalSupportPointToward(c, dir) ==
    IF Gt(Dot(dir, c.segment.a), Dot(dir, c.segment.b))
    THEN VAdd(c.segment.a, VScale(dir, c.radius))
    ELSE VAdd(c.segment.b, VScale(dir, c.radius))

\* (mutant) the direction substituted for an unnormalizable one is the X axis
LocalSupportPoint_FallbackX(c, dir) ==
    LocalSupportPointToward(c, UnwrapOr(TryNew(dir, I(SupportMinNorm)), IV(1, 0, 0)))

\* SupportMap::local_support_point(dir)
LocalSupportPoint(c, dir) ==
    LocalSupportPointToward(c, UnwrapOr(TryNew(dir, I(SupportMinNorm)), VY))

\* ray.inverse_transform_by(m)
RayInverseTransformBy(ray, m) ==
    [origin |-> IsoInvPoint(m, ray.origin), dir |-> IsoInvVector(m, ray.dir)]

\* The arguments RayCast::toi_and_normal_with_ray hands to
\* ray_intersection_with_support_map_with_params.
RayCastCall(c, m, ray, max_toi, solid) ==
    [pose |-> IsoIdentity, shape |-> c, ray |-> RayInverseTransformBy(ray, m),
     max_toi |-> max_toi, solid |-> solid]

\* (mutant) the normal is transformed as a point: the translation acts on it
ToiAndNormalWithRay_Translated(m, ret) ==
    IF ret.some
    THEN Some([toi |-> ret.val.toi, normal |-> IsoPoint(m, ret.val.normal)])
    ELSE None

\* RayCast::toi_and_normal_with_ray, given what the generic algorithm returned
\* (ret: none, or a local time of impact and a local normal)
ToiAndNormalWithRay(m, ret) ==
    IF ret.some
    THEN Some([toi |-> ret.val.toi, normal |-> IsoVector(m, ret.val.normal)])
    ELSE None

\* PointProjection::new(is_inside, point)
PointProjectionNew(is_inside, point) == [is_inside |-> is_inside, point |-> point]

\* (mutant) the fallback direction is not rotated by the pose
ProjectPointFallback_Unrotated(c, m, proj, sdir) ==
    IF sdir.some
    THEN PointProjectionNew(TRUE, VAdd(proj, VScale(OrthonormalBasis0(sdir.val), c.radius)))
    ELSE PointProjectionNew(TRUE, VAdd(proj, VIth(2, c.radius)))

\* PointQuery::project_point(m, pt, solid) (dim3): the branch taken when the
\* offset from the segment cannot be normalised and the query is hollow
ProjectPointFallback(c, m, proj, sdir) ==
    IF sdir.some
    THEN PointProjectionNew(TRUE,
             VAdd(proj, VScale(IsoVector(m, OrthonormalBasis0(sdir.val)), c.radius)))
    ELSE PointProjectionNew(TRUE, VAdd(proj, VIth(2, c.radius)))

\* (mutant) a solid query projects interior points like a hollow one
ProjectPointFrom_NoSolidReturn(c, m, pt, solid, seg, proj, u) ==
    IF u.some
    THEN PointProjectionNew(Le(u.val.dist, c.radius), VAdd(proj, VScale(u.val.dir, c.radius)))
    ELSE IF solid THEN PointProjectionNew(TRUE, pt)
    ELSE ProjectPointFallback(c, m, proj, SegmentDirection(seg))

\* (mutant) the offset direction is not scaled by the radius
ProjectPointFrom_NoRadius(c, m, pt, solid, seg, proj, u) ==
    IF u.some
    THEN IF solid /\ Le(u.val.dist, c.radius)
         THEN PointProjectionNew(TRUE, pt)
         ELSE PointProjectionNew(Le(u.val.dist, c.radius), VAdd(proj, u.val.dir))
    ELSE IF solid THEN PointProjectionNew(TRUE, pt)
    ELSE ProjectPointFallback(c, m, proj, SegmentDirection(seg))

\* ... the branches on the normalised offset u = (dir, dist) from proj to pt
ProjectPointFrom(c, m, pt, solid, seg, proj, u) ==
    IF u.some
    THEN IF solid /\ Le(u.val.dist, c.radius)
         THEN PointProjectionNew(TRUE, pt)
         ELSE PointProjectionNew(Le(u.val.dist, c.radius),
                                 VAdd(proj, VScale(u.val.dir, c.radius)))
    ELSE IF solid THEN PointProjectionNew(TRUE, pt)
    ELSE ProjectPointFallback(c, m, proj, SegmentDirection(seg))

\* ... the offset dproj = pt - proj, normalised with the default epsilon
ProjectPointOnto(c, m, pt, solid, seg, proj) ==
    ProjectPointFrom(c, m, pt, solid, seg, proj,
                     TryNewAndGet(VSub(pt, proj), I(DefaultEpsilon)))

\* ... the projection on the segment
ProjectPointSeg(c, m, pt, solid, seg) ==
    ProjectPointOnto(c, m, pt, solid, seg, SegmentProjectPoint(seg, m, pt))

ProjectPoint(c, m, pt, solid) ==
    ProjectPointSeg(c, m, pt, solid, SegmentNew(c.segment.a, c.segment.b))

\* FeatureId::Face(0)
Face0 == [face |-> 0]

\* (mutant) the feature variant queries the capsule as solid
ProjectPointWithFeature_Solid(c, m, pt) ==
    [proj |-> ProjectPoint(c, m, pt, TRUE), feature |-> Face0]

\* PointQuery::project_point_with_feature(m, pt)
ProjectPointWithFeature(c, m, pt) ==
    [proj |-> ProjectPoint(c, m, pt, FALSE), feature |-> Face0]

----------------------------------------------------------------------------
(* Inputs *)

Lattice(lo, hi) == {IV(x, y, z) : x \in lo..hi, y \in lo..hi, z \in lo..hi}

\* Capsule::new(a, b, radius) with a at the origin of the local frame: every
\* query depends on the local position of the segment only through the pose.
Capsules ==
    {CapsuleNew(VZero, b, I(r)) : b \in Lattice(-MaxCoord, MaxCoord), r \in 0..MaxRadius}

\* quarter turns about the x, y and z axes
RotX == <<IV(1, 0, 0), IV(0, 0, -1), IV(0, 1, 0)>>

RotY == <<IV(0, 0, 1), IV(0, 1, 0), IV(-1, 0, 0)>>

RotZ == <<IV(0, -1, 0), IV(1, 0, 0), IV(0, 0, 1)>>

MatMul(r, s) == Transpose(<<MatVec(r, Transpose(s)[1]), MatVec(r, Transpose(s)[2]),
                            MatVec(r, Transpose(s)[3])>>)

Rotations == {RotIdentity, RotZ, MatMul(RotX, RotY)}

Translations == {VZero, IV(1, -1, 0)}

Poses == {[rotation |-> r, translation |-> t] : r \in Rotations, t \in Translations}

\* poses of the projection queries: the identity, a pure translation, and
\* every rotation followed by the translation
ProjectionPoses ==
    {m \in Poses : m.rotation = RotIdentity \/ m.translation # VZero}

Points == Lattice(0, MaxPt)

\* support directions have coordinates in -MaxDir..MaxDir
Directions == Lattice(-MaxDir, MaxDir)

\* rays, bounds on the time of impact, and the answers of the generic
\* support-map ray cast (the algorithm itself is outside this file): no hit,
\* or a local time of impact within the bound and a local unit normal
Rays == {[origin |-> o, dir |-> IV(0, -1, 0)] : o \in {IV(0, 2, 0), IV(1, 3, -1)}}

MaxTois == {I(1), I(3)}

RayAnswers(max_toi) ==
    {None} \cup {Some([toi |-> t, normal |-> n]) :
                    t \in {Zero, max_toi}, n \in {IV(0, 1, 0), IV(-1, 0, 0)}}

NoArgs == [none |-> TRUE]

NoCall == [none |-> TRUE]

----------------------------------------------------------------------------
(* The state machine: a capsule value, and the last query made of it *)

Init ==
    /\ capsule \in Capsules
    /\ op = "new"
    /\ args = NoArgs
    /\ call = NoCall
    /\ res = NoArgs

\* Every query borrows the capsule immutably and is a function of the capsule
\* and of its arguments, so one query per behaviour covers all of them.

DoAabb ==
    \E pos \in Poses :
        /\ op = "new"
        /\ op' = "aabb"
        /\ args' = [pos |-> pos]
        /\ res' = Aabb(capsule, pos)
        /\ UNCHANGED <<capsule, call>>

DoTransformBy ==
    \E pos \in Poses :
        /\ op = "new"
        /\ op' = "transform_by"
        /\ args' = [pos |-> pos]
        /\ res' = TransformBy(capsule, pos)
        /\ UNCHANGED <<capsule, call>>

\* c.transform_by(pos).transform_by(pos.inverse()): the second transform is
\* applied to the capsule the first one returned
DoTransformByInverse ==
    /\ op = "transform_by"
    /\ op' = "transform_by_inverse"
    /\ res' = TransformBy(res, IsoInverse(args.pos))
    /\ UNCHANGED <<capsule, args, call>>

DoRotationWrtY ==
    /\ op = "new"
    /\ op' = "rotation_wrt_y"
    /\ args' = NoArgs
    /\ res' = RotationWrtY(capsule)
    /\ UNCHANGED <<capsule, call>>

DoLocalSupportPoint ==
    \E dir \in Directions :
        /\ op = "new"
        /\ op' = "local_support_point"
        /\ args' = [dir |-> dir]
        /\ res' = LocalSupportPoint(capsule, dir)
        /\ UNCHANGED <<capsule, call>>

DoToiAndNormalWithRay ==
    \E m \in Poses, ray \in Rays, max_toi \in MaxTois, solid \in BOOLEAN :
        \E ret \in RayAnswers(max_toi) :
            /\ op = "new"
            /\ op' = "toi_and_normal_with_ray"
            /\ args' = [m |-> m, ray |-> ray, max_toi |-> max_toi, solid |-> solid]
            /\ call' = [args |-> RayCastCall(capsule, m, ray, max_toi, solid),
                        ret  |-> ret]
            /\ res' = ToiAndNormalWithRay(m, ret)
            /\ UNCHANGED capsule

DoProjectPoint ==
    \E m \in ProjectionPoses, pt \in Points, solid \in BOOLEAN :
        /\ op = "new"
        /\ op' = "project_point"
        /\ args' = [m |-> m, pt |-> pt, solid |-> solid]
        /\ res' = ProjectPoint(capsule, m, pt, solid)
        /\ UNCHANGED <<capsule, call>>

DoProjectPointWithFeature ==
    \E m \in ProjectionPoses, pt \in Points :
        /\ op = "new"
        /\ op' = "project_point_with_feature"
        /\ args' = [m |-> m, pt |-> pt]
        /\ res' = ProjectPointWithFeature(capsule, m, pt)
        /\ UNCHANGED <<capsule, call>>

NextAabb == DoAabb

NextTransform == DoTransformBy \/ DoTransformByInverse

NextRotation == DoRotationWrtY

NextSupport == DoLocalSupportPoint

NextRay == DoToiAndNormalWithRay

NextProjection == DoProjectPoint \/ DoProjectPointWithFeature

Next ==
    \/ NextAabb
    \/ NextTransform
    \/ NextRotation
    \/ NextSupport
    \/ NextRay
    \/ NextProjection

Spec == Init /\ [][Next]_vars

SpecAabb == Init /\ [][NextAabb]_vars

SpecTransform == Init /\ [][NextTransform]_vars

SpecRotation == Init /\ [][NextRotation]_vars

SpecSupport == Init /\ [][NextSupport]_vars

SpecRay == Init /\ [][NextRay]_vars

SpecProjection == Init /\ [][NextProjection]_vars

----------------------------------------------------------------------------
(* Point projection: C1, C2, C3, C10 *)

EpsilonSq == Mul(I(DefaultEpsilon), I(DefaultEpsilon))

RadiusSq == Mul(capsule.radius, capsule.radius)

\* The geometry of a query: proj, the projection of the query point on the
\* posed segment; d, the offset from proj to the query point; d2 = |d|^2.
GeomOfOffset(proj, d) == [proj |-> proj, d |-> d, d2 |-> NormSq(d)]

GeomOf(proj) == GeomOfOffset(proj, VSub(args.pt, proj))

QueryGeom == GeomOf(SegmentProjectPoint(capsule.segment, args.m, args.pt))

\* the offset can be normalised: its length exceeds epsilon
Normalizable(g) == Gt(g.d2, EpsilonSq)

\* the length of the offset is at most the radius
WithinRadius(g) == Le(g.d2, RadiusSq)

\* the query point is strictly inside the capsule
StrictlyInside(g) == Lt(g.d2, RadiusSq)

\* offset = (radius / |d|) * d, stated without a division:
\* offset * |d| = d * radius
IsRadiusAlong(offset, d, radius) ==
    VScale(offset, Sqrt(NormSq(d))) = VScale(d, radius)

\* the segment axis, and the axis as the pose rotates it
SegmentAxis == VSub(capsule.segment.b, capsule.segment.a)

PosedAxis == MatVec(args.m.rotation, SegmentAxis)

\* Segment::direction() is defined: the segment is longer than epsilon
AxisNormalizable == Gt(NormSq(SegmentAxis), EpsilonSq)

C1_For(g) ==
    ((Normalizable(g) /\ WithinRadius(g)) \/ ~Normalizable(g))
    => (res.point = args.pt /\ res.is_inside)

\* C1: project_point with solid = true returns the query point itself, marked
\* inside, whenever the point is inside the solid volume: its offset from the
\* segment projection is normalizable and no longer than the radius, or the
\* offset is not normalizable.
C1_SolidInsideUnchanged ==
    (op = "project_point" /\ args.solid) => C1_For(QueryGeom)

C1_WitnessFor(g) == Normalizable(g) /\ WithinRadius(g)

C1_Witness ==
    /\ op = "project_point"
    /\ args.solid
    /\ args.m.rotation # RotIdentity
    /\ res.point = args.pt
    /\ res.is_inside
    /\ C1_WitnessFor(QueryGeom)

C2_For(g) ==
    (Normalizable(g) /\ ~(args.solid /\ WithinRadius(g)))
    => (/\ IsRadiusAlong(VSub(res.point, g.proj), g.d, capsule.radius)
        /\ res.is_inside = WithinRadius(g))

\* C2: when the offset d from the segment projection proj is normalizable and
\* it is not the case that (solid and |d| <= radius), project_point returns
\* proj + normalize(d) * radius with inside = (|d| <= radius).
C2_BoundaryPoint ==
    op = "project_point" => C2_For(QueryGeom)

\* a hollow query of an interior off-axis point is moved to the boundary
C2_WitnessFor(g) ==
    /\ Normalizable(g) /\ WithinRadius(g)
    /\ NormSq(VSub(res.point, g.proj)) = RadiusSq

C2_Witness ==
    /\ op = "project_point"
    /\ ~args.solid
    /\ res.is_inside
    /\ res.point # args.pt
    /\ C2_WitnessFor(QueryGeom)

C3_For(g) ==
    ~Normalizable(g)
    => (/\ res.is_inside
        /\ NormSq(VSub(res.point, g.proj)) = RadiusSq
        /\ AxisNormalizable => Dot(VSub(res.point, g.proj), PosedAxis) = Zero
        /\ ~AxisNormalizable => VSub(res.point, g.proj) = VScale(VY, capsule.radius))

\* C3: project_point with solid = false on a point whose offset from the
\* segment projection proj is not normalizable returns proj + f * radius with
\* inside = true, at distance exactly radius from proj, where f is
\* perpendicular to the pose-rotated segment axis when the segment is not
\* degenerate (its direction can be normalised: it is longer than epsilon),
\* and f is the canonical Y axis when it is.
C3_HollowFallback ==
    (op = "project_point" /\ ~args.solid) => C3_For(QueryGeom)

C3_WitnessFor(g) ==
    /\ ~Normalizable(g)
    /\ Dot(VSub(res.point, g.proj), PosedAxis) = Zero
    /\ VSub(res.point, g.proj) # VScale(VY, capsule.radius)

C3_Witness ==
    /\ op = "project_point"
    /\ ~args.solid
    /\ AxisNormalizable
    /\ args.m.rotation # RotIdentity
    /\ Gt(capsule.radius, Zero)
    /\ res.is_inside
    /\ C3_WitnessFor(QueryGeom)

C10_For(g) ==
    StrictlyInside(g)
    => (/\ res.proj.point # args.pt
        /\ res.proj.is_inside
        /\ NormSq(VSub(res.proj.point, g.proj)) = RadiusSq)

\* C10: project_point_with_feature returns the projection project_point
\* returns with solid = false, so a point strictly inside the capsule is moved
\* to the surface and never returned unchanged, with the feature Face(0).
C10_FeatureIsHollow ==
    op = "project_point_with_feature"
    => (/\ res.feature = Face0
        /\ res.proj = ProjectPoint(capsule, args.m, args.pt, FALSE)
        /\ C10_For(QueryGeom))

C10_WitnessFor(g) ==
    /\ StrictlyInside(g)
    /\ Normalizable(g)
    /\ NormSq(VSub(res.proj.point, g.proj)) = RadiusSq

C10_Witness ==
    /\ op = "project_point_with_feature"
    /\ res.feature = Face0
    /\ res.proj.point # args.pt
    /\ C10_WitnessFor(QueryGeom)

----------------------------------------------------------------------------
(* Points of the capsule, for the containment and maximality checks *)

\* the lattice vectors of length exactly r
SphereOffsets ==
    [r \in 0..MaxRadius |->
        {o \in Lattice(-MaxRadius, MaxRadius) : NormSq(o) = I(r * r)}]

Half == Mk(1, 0, 1, 2)

SegmentMid(seg) == VScale(VAdd(seg.a, seg.b), Half)

\* the endpoints and the midpoint of the segment, and the points exactly one
\* radius away from them: all within distance radius of the segment
CapsuleSamples(seg, radius) ==
    {VAdd(base, o) : base \in {seg.a, seg.b, SegmentMid(seg)},
                     o \in SphereOffsets[radius.p] \cup {VZero}}

----------------------------------------------------------------------------
(* Support mapping: C4, C5 *)

\* the endpoint with the larger dot product with dir, b when they are equal
FartherEndpoint(seg, dir) ==
    IF Gt(Dot(seg.a, dir), Dot(seg.b, dir)) THEN seg.a ELSE seg.b

\* C4: for a normalizable direction dir, local_support_point(dir) returns
\* E + radius * normalize(dir), E the endpoint with the larger dot product
\* with dir (b when equal), and no point of the capsule has a larger dot
\* product with dir.
C4_SupportPointMaximal ==
    (op = "local_support_point" /\ args.dir # VZero)
    => (/\ IsRadiusAlong(VSub(res, FartherEndpoint(capsule.segment, args.dir)),
                         args.dir, capsule.radius)
        /\ \A p \in CapsuleSamples(capsule.segment, capsule.radius) :
              Le(Dot(p, args.dir), Dot(res, args.dir)))

C4_Witness ==
    /\ op = "local_support_point"
    /\ args.dir # VZero
    /\ Gt(capsule.radius, Zero)
    /\ Gt(Dot(capsule.segment.a, args.dir), Dot(capsule.segment.b, args.dir))
    /\ res = VAdd(capsule.segment.a, VScale(args.dir, Div(capsule.radius, Sqrt(NormSq(args.dir)))))
    /\ res[1].q # 0

\* the support point the substitution of the Y axis gives
SupportAlongY == VAdd(FartherEndpoint(capsule.segment, VY), VScale(VY, capsule.radius))

\* C5 as stated: for every direction of length at or below epsilon,
\* local_support_point substitutes the canonical Y axis and returns
\* (the endpoint with the larger y) + radius * Y.
C5_EpsilonDirectionUsesY ==
    (op = "local_support_point" /\ Le(NormSq(args.dir), EpsilonSq))
    => res = SupportAlongY

\* C5 as amended: the substitution is made for the zero direction (the
\* threshold given to the normalisation is 0, not epsilon).
C5_ZeroDirectionUsesY ==
    (op = "local_support_point" /\ args.dir = VZero)
    => res = SupportAlongY

C5_Witness ==
    /\ op = "local_support_point"
    /\ args.dir = VZero
    /\ Gt(capsule.radius, Zero)
    /\ capsule.segment.a # capsule.segment.b
    /\ res = VAdd(capsule.segment.a, VScale(VY, capsule.radius))

----------------------------------------------------------------------------
(* Canonical rotation: C6 *)

\* Capsule::new(b, a, radius): the same capsule with its endpoints exchanged
SwappedCapsule == CapsuleNew(capsule.segment.b, capsule.segment.a, capsule.radius)

\* C6 as stated: rotation_wrt_y does not depend on the order of the
\* endpoints, segments whose direction has a zero Y component included.
C6_OrderIndependent ==
    op = "rotation_wrt_y" => res = RotationWrtY(SwappedCapsule)

\* C6 as amended: rotation_wrt_y does not depend on the order of the
\* endpoints when the direction b - a has a nonzero Y component, or a = b.
C6_OrderIndependentOffPlane ==
    (/\ op = "rotation_wrt_y"
     /\ SegmentAxis[2] # Zero \/ SegmentAxis = VZero)
    => res = RotationWrtY(SwappedCapsule)

C6_Witness ==
    /\ op = "rotation_wrt_y"
    /\ Lt(SegmentAxis[2], Zero)
    /\ SegmentAxis[1] # Zero
    /\ res # RotIdentity
    /\ res = RotationWrtY(SwappedCapsule)

----------------------------------------------------------------------------
(* Bounding box: C7 *)

PosedA == IsoPoint(args.pos, capsule.segment.a)

PosedB == IsoPoint(args.pos, capsule.segment.b)

\* lo is the smaller of x and y
IsMinOf(lo, x, y) == (lo = x \/ lo = y) /\ Le(lo, x) /\ Le(lo, y)

\* hi is the larger of x and y
IsMaxOf(hi, x, y) == (hi = x \/ hi = y) /\ Ge(hi, x) /\ Ge(hi, y)

InBox(box, p) == \A i \in 1..3 : Le(box.mins[i], p[i]) /\ Le(p[i], box.maxs[i])

\* C7: aabb(pose) is the componentwise min of the posed endpoints minus the
\* radius and their componentwise max plus the radius; mins <= maxs on every
\* axis; every point within distance radius of the posed segment is in the box.
C7_AabbContains ==
    op = "aabb"
    => (/\ \A i \in 1..3 :
              /\ IsMinOf(Add(res.mins[i], capsule.radius), PosedA[i], PosedB[i])
              /\ IsMaxOf(Sub(res.maxs[i], capsule.radius), PosedA[i], PosedB[i])
              /\ Le(res.mins[i], res.maxs[i])
        /\ \A p \in CapsuleSamples(SegmentNew(PosedA, PosedB), capsule.radius) :
              InBox(res, p))

C7_Witness ==
    /\ op = "aabb"
    /\ Gt(capsule.radius, Zero)
    /\ args.pos.rotation # RotIdentity
    /\ args.pos.translation # VZero
    /\ PosedA[1] # PosedB[1]
    /\ InBox(res, PosedA) /\ InBox(res, PosedB)
    /\ res.maxs[1] = Add(Max(PosedA[1], PosedB[1]), capsule.radius)

----------------------------------------------------------------------------
(* Rigid transform: C8 *)

\* res is the capsule c moved by pos
IsTransformed(c, pos, moved) ==
    /\ moved.segment.a = IsoPoint(pos, c.segment.a)
    /\ moved.segment.b = IsoPoint(pos, c.segment.b)
    /\ IsoInvPoint(pos, moved.segment.a) = c.segment.a
    /\ IsoInvPoint(pos, moved.segment.b) = c.segment.b
    /\ moved.radius = c.radius

\* C8: transform_by(p) returns a new capsule with endpoints p*A and p*B and
\* the same radius, leaves the capsule it is called on unchanged, and
\* transform_by(p) followed by transform_by(inverse(p)) gives back the
\* endpoints and the radius of the capsule.
C8_TransformRoundTrip ==
    [][/\ capsule' = capsule
       /\ op' = "transform_by" => IsTransformed(capsule, args'.pos, res')
       /\ op' = "transform_by_inverse" =>
             /\ IsTransformed(capsule, args.pos, res)
             /\ res'.segment = capsule.segment
             /\ res'.radius = capsule.radius]_vars

C8_Witness ==
    /\ op = "transform_by_inverse"
    /\ args.pos.rotation # RotIdentity
    /\ args.pos.translation # VZero
    /\ capsule.segment.a # capsule.segment.b
    /\ res = capsule

----------------------------------------------------------------------------
(* Ray cast: C9 *)

\* C9: toi_and_normal_with_ray calls the generic support-map ray cast with
\* the identity pose, the capsule, the ray taken to the local frame of m, and
\* the same max_toi and solid; it returns nothing exactly when the generic
\* algorithm does, and otherwise its time of impact, with the local normal
\* rotated by the rotation of m (the translation of m does not act on it).
C9_RayCastWrapper ==
    op = "toi_and_normal_with_ray"
    => (/\ call.args.pose = IsoIdentity
        /\ call.args.shape = capsule
        /\ IsoPoint(args.m, call.args.ray.origin) = args.ray.origin
        /\ MatVec(args.m.rotation, call.args.ray.dir) = args.ray.dir
        /\ call.args.max_toi = args.max_toi
        /\ call.args.solid = args.solid
        /\ res.some = call.ret.some
        /\ call.ret.some =>
              /\ res.val.toi = call.ret.val.toi
              /\ res.val.normal = MatVec(args.m.rotation, call.ret.val.normal))

C9_Witness ==
    /\ op = "toi_and_normal_with_ray"
    /\ args.m.rotation # RotIdentity
    /\ args.m.translation # VZero
    /\ call.ret.some
    /\ res.some
    /\ res.val.toi = call.ret.val.toi
    /\ res.val.normal # call.ret.val.normal
    /\ NormSq(res.val.normal) = One

====
